---- MODULE Spec2Model ----
(***************************************************************************)
(* The two pipelines of the repository:                                    *)
(*   examples/pipelines/contextless/app.py       (run, keyword arguments)  *)
(*   llm_app/pathway_pipelines/contextful_s3/app.py   (run(config))        *)
(*                                                                         *)
(* Every table the scripts build is a variable holding the rows of that    *)
(* table, keyed by record identifier.                                      *)
(*                                                                         *)
(* Documents: enriched_documents = documents + documents.select(...) is a  *)
(* table over the universe of documents, so a document's row enters        *)
(* documents, enriched_documents and the index in one step.  The reader    *)
(* runs in mode="streaming": documents may arrive at any time of the run.  *)
(*                                                                         *)
(* Queries: a request enters query with its embedding; index.query,        *)
(* build_prompt, model.apply and response_writer are steps of their own,   *)
(* taken by the dataflow engine for one row at a time and in any order     *)
(* between rows.  The engine keeps a derived table up to date: index.query *)
(* is the updating query, so a derived row is computed again when the row  *)
(* or the index it was computed from has changed.  The REST connector      *)
(* answers a request once.                                                 *)
(*                                                                         *)
(* An external call (embedding, chat) that raises ends pw.run().           *)
(***************************************************************************)
EXTENDS Integers, Sequences, FiniteSets, TLC

(* ------------------------------ bounds --------------------------------- *)
\* objects the S3 reader delivers during a run
MaxReads == 1
\* requests the REST connector accepts during a run
MaxQueries == 2

\* the objects of the bucket: JSON-lines files, one doc field per line
S3Objects == { << "kafka", "csv", "csv", "kafka" >>, << "csv", "kafka" >> }

\* the request bodies: {"query": ..., "user": ...}
Requests ==
    { [query |-> "how to kafka", user |-> "alice"],
      [query |-> "how to kafka", user |-> "bob"],
      [query |-> "how to csv", user |-> "alice"] }

(* --------------------------- program constants ------------------------- *)
DefaultModelLocator == "gpt2"
DefaultMaxTokens == 60
\* temperature = 0.8, in tenths
DefaultTemperature == 8
\* index.query(query, k=3)
K == 3

Modes == {"contextless", "contextful_s3"}

\* keyword arguments a caller of the contextless run may pass
RunKwargs ==
    { [api_key |-> "sk"],
      [api_key |-> "sk", model_locator |-> "gpt-3.5-turbo"],
      [api_key |-> "sk", model_locator |-> "gpt-4", max_tokens |-> 120,
       temperature |-> 0] }

\* contextless run(): the keyword arguments with their defaults filled in
RunParams(kw) ==
    [ model_locator |-> IF "model_locator" \in DOMAIN kw
                        THEN kw.model_locator ELSE DefaultModelLocator,
      max_tokens    |-> IF "max_tokens" \in DOMAIN kw
                        THEN kw.max_tokens ELSE DefaultMaxTokens,
      temperature   |-> IF "temperature" \in DOMAIN kw
                        THEN kw.temperature ELSE DefaultTemperature ]

\* llm_app.config.Config values handed to the contextful_s3 run
Configs ==
    { [ embedder_locator |-> "text-embedding-ada-002", embedding_dimension |-> 1536,
        model_locator |-> "gpt-3.5-turbo", max_tokens |-> 60, temperature |-> 0 ],
      [ embedder_locator |-> "text-embedding-3-small", embedding_dimension |-> 512,
        model_locator |-> "gpt-4", max_tokens |-> 120, temperature |-> 8 ] }

VARIABLES
    mode,                \* which pipeline runs
    config,              \* keyword arguments (contextless) or Config (contextful_s3)
    crashed,             \* an external call raised and pw.run() ended
    reads,               \* number of bucket objects read so far
    documents,           \* table documents:           id -> [doc]
    enriched_documents,  \* table enriched_documents:  id -> [doc, data]
    index,               \* KNNIndex: [d, data: id -> vector record]
    query,               \* table query:               id -> [query, user(, data)]
    query_context,       \* table query_context:       id -> [query, documents_list]
    prompt,              \* table prompt:              id -> [prompt]
    responses,           \* table responses:           id -> [query_id, result]
    tasks,               \* REST connector: requests still waiting for a response
    written,             \* HTTP responses written:    id -> sequence of results
    embed_calls,         \* embedding API calls made:  id -> sequence of calls
    chat_calls           \* chat API calls made:       id -> sequence of calls

vars == << mode, config, crashed, reads, documents, enriched_documents, index,
           query, query_context, prompt, responses, tasks, written,
           embed_calls, chat_calls >>

(* ------------------------------ helpers -------------------------------- *)
\* f extended (or overwritten) at key k with value v
Put(f, k, v) == [x \in DOMAIN f \cup {k} |-> IF x = k THEN v ELSE f[x]]

Empty == [x \in {} |-> x]

Abs(n) == IF n < 0 THEN -n ELSE n

Last(seq) == seq[Len(seq)]

\* the external embedding model, fixed: a text's position on a line
Vec(text) ==
    CASE text = "kafka"        -> 1
      [] text = "how to kafka" -> 2
      [] text = "csv"          -> 6
      [] text = "how to csv"   -> 7
      [] OTHER                 -> 20

\* OpenAIEmbeddingModel.apply(text=..., locator=...)
Embedding(text, locator) == [locator |-> locator, vec |-> Vec(text)]

\* OpenAIChatGPTModel.apply(text, locator=, temperature=, max_tokens=)
ChatCompletion(text, locator, temperature, max_tokens) ==
    "<" \o locator \o "> " \o text

DocId(n) == <<"doc", n>>
QueryId(n) == <<"query", n>>

(* ------------------------- nearest neighbours -------------------------- *)
Distance(u, v) == Abs(u.vec - v.vec)

\* a is retrieved before b for the query vector qv
Nearer(a, b, qv, data) ==
    \/ Distance(data[a].data, qv) < Distance(data[b].data, qv)
    \/ /\ Distance(data[a].data, qv) = Distance(data[b].data, qv)
       /\ a[2] < b[2]

Nearest(S, qv, data) ==
    CHOOSE a \in S : \A b \in S \ {a} : Nearer(a, b, qv, data)

RECURSIVE TopK(_, _, _, _)
TopK(S, qv, data, k) ==
    IF k = 0 \/ S = {} THEN << >>
    ELSE LET a == Nearest(S, qv, data)
         IN  << a >> \o TopK(S \ {a}, qv, data, k - 1)

\* IndexQuery without the cut at k
IndexQueryUncut(idx, qv, k) ==
    LET ids == TopK(DOMAIN idx.data, qv, idx.data, Cardinality(DOMAIN idx.data))
    IN  [i \in 1..Len(ids) |-> idx.data[ids[i]].doc]

\* index.query(query, k): the doc texts of the k nearest indexed documents
IndexQuery(idx, qv, k) ==
    LET ids == TopK(DOMAIN idx.data, qv, idx.data, k)
    IN  [i \in 1..Len(ids) |-> idx.data[ids[i]].doc]

(* ----------------------------- build_prompt ---------------------------- *)
RECURSIVE Join(_, _)
\* sep.join(strs)
Join(sep, strs) ==
    IF strs = << >> THEN ""
    ELSE IF Len(strs) = 1 THEN strs[1]
    ELSE strs[1] \o sep \o Join(sep, Tail(strs))

\* build_prompt with a newline after every document
build_promptTrailingNewline(docs, q) ==
    LET docs_str == Join("", [i \in 1..Len(docs) |-> docs[i] \o "\n"])
    IN  "Given the following documents : \n " \o docs_str
            \o " \nanswer this query: " \o q

build_prompt(docs, q) ==
    LET docs_str == Join("\n", docs)
    IN  "Given the following documents : \n " \o docs_str
            \o " \nanswer this query: " \o q

(* -------------------------------- Init --------------------------------- *)
Init ==
    /\ mode \in Modes
    /\ config \in IF mode = "contextless" THEN RunKwargs ELSE Configs
    /\ crashed = FALSE
    /\ reads = 0
    /\ documents = Empty
    /\ enriched_documents = Empty
    /\ index = [d |-> IF mode = "contextful_s3"
                      THEN config.embedding_dimension ELSE 0,
                data |-> Empty]
    /\ query = Empty
    /\ query_context = Empty
    /\ prompt = Empty
    /\ responses = Empty
    /\ tasks = {}
    /\ written = Empty
    /\ embed_calls = Empty
    /\ chat_calls = Empty

Running(m) == mode = m /\ ~crashed

Log(calls, id, call) ==
    Put(calls, id, (IF id \in DOMAIN calls THEN calls[id] ELSE << >>) \o << call >>)

\* the record of a chat call c: its arguments, and whether it returned
Returned(c, ok) ==
    [text |-> c.text, locator |-> c.locator, temperature |-> c.temperature,
     max_tokens |-> c.max_tokens, returned |-> ok]

(* ------------------------ contextful_s3 pipeline ----------------------- *)
\* the rows of one bucket object, numbered on from the n documents read before
NewDocuments(lines, n) ==
    [id \in {DocId(n + i) : i \in 1..Len(lines)} |-> [doc |-> lines[id[2] - n]]]

\* Enrich with every embedding taken from one and the same row
EnrichFromOneRow(docs, locator) ==
    [id \in DOMAIN docs |->
        [doc |-> docs[id].doc,
         data |-> Embedding(docs[CHOOSE x \in DOMAIN docs : TRUE].doc, locator)]]

\* documents + documents.select(data=embedder.apply(text=doc, locator=...))
Enrich(docs, locator) ==
    [id \in DOMAIN docs |->
        [doc |-> docs[id].doc, data |-> Embedding(docs[id].doc, locator)]]

\* f and g, tables over disjoint sets of keys, as one table
Merge(f, g) ==
    [x \in DOMAIN f \cup DOMAIN g |-> IF x \in DOMAIN g THEN g[x] ELSE f[x]]

\* pw.io.s3.read delivers the lines of one more object; the enriched rows
\* (doc + data) enter enriched_documents and the index with them
ReadDocuments(lines) ==
    /\ Running("contextful_s3")
    /\ reads < MaxReads
    /\ reads' = reads + 1
    /\ LET new == NewDocuments(lines, Cardinality(DOMAIN documents))
           enriched == Enrich(new, config.embedder_locator)
       IN  /\ documents' = Merge(documents, new)
           /\ enriched_documents' = Merge(enriched_documents, enriched)
           /\ index' = [index EXCEPT !.data = Merge(index.data, enriched)]
           /\ embed_calls' = Merge(embed_calls,
                  [id \in DOMAIN new |->
                      << [text |-> new[id].doc, locator |-> config.embedder_locator] >>])
    /\ UNCHANGED << mode, config, crashed, query, query_context, prompt,
                    responses, tasks, written, chat_calls >>

\* the embedding call for a document raises: the run ends
EmbedDocumentFails ==
    /\ Running("contextful_s3")
    /\ reads < MaxReads
    /\ crashed' = TRUE
    /\ UNCHANGED << mode, config, reads, documents, enriched_documents, index,
                    query, query_context, prompt, responses, tasks, written,
                    embed_calls, chat_calls >>

\* QueryEmbedding with the chat model's locator
QueryEmbeddingModelLocator(text) == Embedding(text, config.model_locator)

\* embedder.apply(text=pw.this.query, locator=config.embedder_locator)
QueryEmbedding(text) == Embedding(text, config.embedder_locator)

\* the REST connector accepts a request; query += query.select(data=...)
AcceptQuery(req) ==
    /\ Running("contextful_s3")
    /\ Cardinality(DOMAIN query) < MaxQueries
    /\ LET id == QueryId(Cardinality(DOMAIN query) + 1)
       IN  /\ query' = Put(query, id,
                           [query |-> req.query, user |-> req.user,
                            data |-> QueryEmbedding(req.query)])
           /\ tasks' = tasks \cup {id}
           /\ embed_calls' = Log(embed_calls, id,
                  [text |-> req.query, locator |-> QueryEmbedding(req.query).locator])
    /\ UNCHANGED << mode, config, crashed, reads, documents, enriched_documents,
                    index, query_context, prompt, responses, written, chat_calls >>

\* the embedding call for a query raises: the run ends
EmbedQueryFails ==
    /\ Running("contextful_s3")
    /\ Cardinality(DOMAIN query) < MaxQueries
    /\ crashed' = TRUE
    /\ UNCHANGED << mode, config, reads, documents, enriched_documents, index,
                    query, query_context, prompt, responses, tasks, written,
                    embed_calls, chat_calls >>

\* query_context = index.query(query, k=3).select(query, documents_list=result)
QueryContextRow(q) ==
    [query |-> query[q].query,
     documents_list |-> IndexQuery(index, query[q].data, K)]

QueryIndex(q) ==
    /\ Running("contextful_s3")
    /\ q \in DOMAIN query
    /\ IF q \in DOMAIN query_context
       THEN query_context[q] # QueryContextRow(q) ELSE TRUE
    /\ query_context' = Put(query_context, q, QueryContextRow(q))
    /\ UNCHANGED << mode, config, crashed, reads, documents, enriched_documents,
                    index, query, prompt, responses, tasks, written, embed_calls,
                    chat_calls >>

\* prompt = query_context.select(prompt=build_prompt(documents_list, query))
PromptRow(q) ==
    [prompt |-> build_prompt(query_context[q].documents_list, query_context[q].query)]

BuildPrompt(q) ==
    /\ Running("contextful_s3")
    /\ q \in DOMAIN query_context
    /\ IF q \in DOMAIN prompt THEN prompt[q] # PromptRow(q) ELSE TRUE
    /\ prompt' = Put(prompt, q, PromptRow(q))
    /\ UNCHANGED << mode, config, crashed, reads, documents, enriched_documents,
                    index, query, query_context, responses, tasks, written,
                    embed_calls, chat_calls >>

\* ChatCall on the query text in place of the prompt
ChatCallOnQuery(q) ==
    [text |-> query[q].query, locator |-> config.model_locator,
     temperature |-> config.temperature, max_tokens |-> config.max_tokens]

\* the arguments of model.apply for row q
ChatCall(q) ==
    [text |-> prompt[q].prompt, locator |-> config.model_locator,
     temperature |-> config.temperature, max_tokens |-> config.max_tokens]

\* row q of prompt is new, or has changed since the model was last applied
ChatDue(q) ==
    /\ q \in DOMAIN prompt
    /\ IF q \in DOMAIN chat_calls
       THEN chat_calls[q][Len(chat_calls[q])].text # prompt[q].prompt ELSE TRUE

\* ResponseRow with the identifier of another row
ResponseRowFixedKey(q, result) == [query_id |-> QueryId(1), result |-> result]

\* a row of responses
ResponseRow(q, result) == [query_id |-> q, result |-> result]

\* responses = prompt.select(query_id=pw.this.id, result=model.apply(...))
Chat(q) ==
    /\ Running("contextful_s3")
    /\ ChatDue(q)
    /\ LET c == ChatCall(q)
       IN  /\ chat_calls' = Log(chat_calls, q, Returned(c, TRUE))
           /\ responses' = Put(responses, q,
                  ResponseRow(q, ChatCompletion(c.text, c.locator, c.temperature,
                                                c.max_tokens)))
    /\ UNCHANGED << mode, config, crashed, reads, documents, enriched_documents,
                    index, query, query_context, prompt, tasks, written,
                    embed_calls >>

\* ChatFails with the error swallowed and an empty result in its place
ChatFailsWithDefault(q) ==
    /\ Running("contextful_s3")
    /\ ChatDue(q)
    /\ chat_calls' = Log(chat_calls, q, Returned(ChatCall(q), FALSE))
    /\ responses' = Put(responses, q, ResponseRow(q, ""))
    /\ UNCHANGED << mode, config, crashed, reads, documents, enriched_documents,
                    index, query, query_context, prompt, tasks, written,
                    embed_calls >>

\* the chat call raises: the run ends, no row is added to responses
ChatFails(q) ==
    /\ Running("contextful_s3")
    /\ ChatDue(q)
    /\ chat_calls' = Log(chat_calls, q, Returned(ChatCall(q), FALSE))
    /\ crashed' = TRUE
    /\ UNCHANGED << mode, config, reads, documents, enriched_documents, index,
                    query, query_context, prompt, responses, tasks, written,
                    embed_calls >>

\* OnChange answering again whenever the row of responses has changed
OnChangeEveryRow(q) ==
    /\ q \in DOMAIN responses
    /\ IF responses[q].query_id \in DOMAIN written
       THEN Last(written[responses[q].query_id]) # responses[q].result
       ELSE TRUE
    /\ written' = Log(written, responses[q].query_id, responses[q].result)
    /\ tasks' = tasks \ {responses[q].query_id}

\* response_writer(responses): a row of responses reaches the connector,
\* which answers the request waiting under that key; a row whose request
\* has been answered already is dropped
OnChange(q) ==
    /\ q \in DOMAIN responses
    /\ responses[q].query_id \in tasks
    /\ written' = Log(written, responses[q].query_id, responses[q].result)
    /\ tasks' = tasks \ {responses[q].query_id}

WriteResponse(q) ==
    /\ Running("contextful_s3")
    /\ OnChange(q)
    /\ UNCHANGED << mode, config, crashed, reads, documents, enriched_documents,
                    index, query, query_context, prompt, responses, embed_calls,
                    chat_calls >>

(* ------------------------- contextless pipeline ------------------------ *)
\* the REST connector accepts a request: a row of query
ContextlessAcceptQuery(req) ==
    /\ Running("contextless")
    /\ Cardinality(DOMAIN query) < MaxQueries
    /\ LET id == QueryId(Cardinality(DOMAIN query) + 1)
       IN  /\ query' = Put(query, id, [query |-> req.query, user |-> req.user])
           /\ tasks' = tasks \cup {id}
    /\ UNCHANGED << mode, config, crashed, reads, documents, enriched_documents,
                    index, query_context, prompt, responses, written, embed_calls,
                    chat_calls >>

\* ContextlessChatCall with the default temperature in place of the run's
ContextlessChatCallDefaultTemperature(q) ==
    [text |-> query[q].query, locator |-> RunParams(config).model_locator,
     temperature |-> DefaultTemperature,
     max_tokens |-> RunParams(config).max_tokens]

\* ContextlessChatCall with the user added to the text
ContextlessChatCallWithUser(q) ==
    [text |-> query[q].user \o ": " \o query[q].query,
     locator |-> RunParams(config).model_locator,
     temperature |-> RunParams(config).temperature,
     max_tokens |-> RunParams(config).max_tokens]

\* the arguments of model.apply for row q
ContextlessChatCall(q) ==
    [text |-> query[q].query, locator |-> RunParams(config).model_locator,
     temperature |-> RunParams(config).temperature,
     max_tokens |-> RunParams(config).max_tokens]

\* a row of responses
ContextlessResponseRow(q, result) == [query_id |-> q, result |-> result]

\* responses = query.select(query_id=pw.this.id, result=model.apply(...))
ContextlessChat(q) ==
    /\ Running("contextless")
    /\ q \in DOMAIN query
    /\ q \notin DOMAIN chat_calls
    /\ LET c == ContextlessChatCall(q)
       IN  /\ chat_calls' = Log(chat_calls, q, Returned(c, TRUE))
           /\ responses' = Put(responses, q,
                  ContextlessResponseRow(q,
                      ChatCompletion(c.text, c.locator, c.temperature,
                                     c.max_tokens)))
    /\ UNCHANGED << mode, config, crashed, reads, documents, enriched_documents,
                    index, query, query_context, prompt, tasks, written,
                    embed_calls >>

\* the chat call raises: the run ends, no row is added to responses
ContextlessChatFails(q) ==
    /\ Running("contextless")
    /\ q \in DOMAIN query
    /\ q \notin DOMAIN chat_calls
    /\ chat_calls' = Log(chat_calls, q, Returned(ContextlessChatCall(q), FALSE))
    /\ crashed' = TRUE
    /\ UNCHANGED << mode, config, reads, documents, enriched_documents, index,
                    query, query_context, prompt, responses, tasks, written,
                    embed_calls >>

\* response_writer(responses)
ContextlessWriteResponse(q) ==
    /\ Running("contextless")
    /\ OnChange(q)
    /\ UNCHANGED << mode, config, crashed, reads, documents, enriched_documents,
                    index, query, query_context, prompt, responses, embed_calls,
                    chat_calls >>

(* ----------------------------- specification --------------------------- *)
QueryIds == {QueryId(n) : n \in 1..MaxQueries}

Next ==
    \/ \E lines \in S3Objects : ReadDocuments(lines)
    \/ EmbedDocumentFails
    \/ \E req \in Requests : AcceptQuery(req)
    \/ EmbedQueryFails
    \/ \E q \in QueryIds : QueryIndex(q)
    \/ \E q \in QueryIds : BuildPrompt(q)
    \/ \E q \in QueryIds : Chat(q)
    \/ \E q \in QueryIds : ChatFails(q)
    \/ \E q \in QueryIds : WriteResponse(q)
    \/ \E req \in Requests : ContextlessAcceptQuery(req)
    \/ \E q \in QueryIds : ContextlessChat(q)
    \/ \E q \in QueryIds : ContextlessChatFails(q)
    \/ \E q \in QueryIds : ContextlessWriteResponse(q)

Spec == Init /\ [][Next]_vars

\* a step of the dataflow engine, as opposed to a request or a document
\* arriving or an external call failing
EngineStep ==
    \E q \in QueryIds :
        \/ QueryIndex(q)
        \/ BuildPrompt(q)
        \/ Chat(q)
        \/ WriteResponse(q)
        \/ ContextlessChat(q)
        \/ ContextlessWriteResponse(q)

\* pw.run() keeps the engine running while a step is due
FairSpec == Spec /\ WF_vars(EngineStep)

TypeOK ==
    /\ mode \in Modes
    /\ crashed \in BOOLEAN
    /\ DOMAIN documents = DOMAIN enriched_documents
    /\ reads \in 0..MaxReads

(* ------------------------------- claims -------------------------------- *)
Range(f) == {f[x] : x \in DOMAIN f}

\* the doc texts read from the bucket so far
IngestedTexts == {documents[d].doc : d \in DOMAIN documents}

\* every list of at most K ingested doc texts
DocumentLists == UNION {[1..n -> IngestedTexts] : n \in 0..K}

\* the texts the chat model may be given for the query with text qt
ChatInputs(qt) ==
    IF mode = "contextless" THEN {qt}
    ELSE {build_prompt(dl, qt) : dl \in DocumentLists}

\* C1: every row of responses carries, as query_id, the identifier of an
\* accepted query, the one on whose row the chat model was applied and from
\* whose text the result was computed; responses are written under accepted
\* identifiers only.
C1_ResponseCarriesQueryId ==
    /\ \A k \in DOMAIN responses :
          LET r == responses[k]
          IN  /\ r.query_id = k
              /\ r.query_id \in DOMAIN query
              /\ r.query_id \in DOMAIN chat_calls
              /\ \E i \in 1..Len(chat_calls[r.query_id]) :
                    LET c == chat_calls[r.query_id][i]
                    IN  /\ c.returned
                        /\ c.text \in ChatInputs(query[r.query_id].query)
                        /\ r.result = ChatCompletion(c.text, c.locator,
                                                     c.temperature, c.max_tokens)
    /\ DOMAIN written \subseteq DOMAIN query

\* two queries with different texts in flight, the later one answered first
C1_Witness ==
    /\ QueryId(2) \in DOMAIN responses
    /\ QueryId(1) \in DOMAIN query
    /\ QueryId(1) \notin DOMAIN responses
    /\ query[QueryId(1)].query # query[QueryId(2)].query
    /\ QueryId(2) \in DOMAIN written

\* C2: in the contextless pipeline the chat model is called, for a query, on
\* that query's text with the model_locator, temperature and max_tokens the
\* run was given ("gpt2", 8 tenths, 60 when not given), and the response
\* holds the model's output for that call.
C2_ContextlessResult ==
    mode = "contextless" =>
        LET locator == IF "model_locator" \in DOMAIN config
                       THEN config.model_locator ELSE "gpt2"
            temperature == IF "temperature" \in DOMAIN config
                           THEN config.temperature ELSE 8
            max_tokens == IF "max_tokens" \in DOMAIN config
                          THEN config.max_tokens ELSE 60
        IN  /\ \A q \in DOMAIN chat_calls :
                  \A i \in 1..Len(chat_calls[q]) :
                      /\ chat_calls[q][i].text = query[q].query
                      /\ chat_calls[q][i].locator = locator
                      /\ chat_calls[q][i].temperature = temperature
                      /\ chat_calls[q][i].max_tokens = max_tokens
            /\ \A q \in DOMAIN responses :
                  responses[q].result =
                      ChatCompletion(query[q].query, locator, temperature, max_tokens)

\* a configured model_locator with the other two defaulted, two queries with
\* different texts answered
C2_Witness ==
    /\ mode = "contextless"
    /\ DOMAIN config = {"api_key", "model_locator"}
    /\ DOMAIN responses = {QueryId(1), QueryId(2)}
    /\ query[QueryId(1)].query # query[QueryId(2)].query

\* C4: enriched_documents and the index hold exactly the documents read, each
\* under its own identifier with its own doc text and the embedding of that
\* text, and each document was embedded once.
C4_EnrichedDocuments ==
    /\ DOMAIN enriched_documents = DOMAIN documents
    /\ DOMAIN index.data = DOMAIN documents
    /\ \A d \in DOMAIN documents :
          /\ enriched_documents[d].doc = documents[d].doc
          /\ enriched_documents[d].data.vec = Vec(documents[d].doc)
          /\ index.data[d] = enriched_documents[d]
          /\ d \in DOMAIN embed_calls
          /\ Len(embed_calls[d]) = 1
          /\ embed_calls[d][1].text = documents[d].doc

\* documents with different texts have been read
C4_Witness ==
    /\ Cardinality(DOMAIN documents) >= 2
    /\ Cardinality(IngestedTexts) >= 2

\* C6: documents_list holds at most 3 entries, no more than there are
\* documents indexed, each the doc text of a document read from the bucket.
C6_DocumentsList ==
    \A q \in DOMAIN query_context :
        LET dl == query_context[q].documents_list
        IN  /\ Len(dl) <= 3
            /\ Len(dl) <= Cardinality(DOMAIN index.data)
            /\ \A i \in 1..Len(dl) : dl[i] \in IngestedTexts

\* more than 3 documents indexed and a list of 3 retrieved; another query
\* holds the empty list retrieved before the documents arrived
C6_Witness ==
    /\ Cardinality(DOMAIN index.data) > 3
    /\ \E q \in DOMAIN query_context : Len(query_context[q].documents_list) = 3
    /\ \E q \in DOMAIN query_context : Len(query_context[q].documents_list) = 0

\* C8: documents and queries are embedded with config.embedder_locator, and
\* the index has dimension config.embedding_dimension.
C8_SameEmbedder ==
    mode = "contextful_s3" =>
        /\ \A d \in DOMAIN enriched_documents :
              enriched_documents[d].data.locator = config.embedder_locator
        /\ \A d \in DOMAIN index.data :
              index.data[d].data.locator = config.embedder_locator
        /\ \A q \in DOMAIN query :
              query[q].data.locator = config.embedder_locator
        /\ \A x \in DOMAIN embed_calls :
              \A i \in 1..Len(embed_calls[x]) :
                  embed_calls[x][i].locator = config.embedder_locator
        /\ index.d = config.embedding_dimension

\* documents indexed and a query's context retrieved from them
C8_Witness ==
    /\ DOMAIN index.data # {}
    /\ \E q \in DOMAIN query_context : query_context[q].documents_list # << >>

\* row q of table t is new or has changed in this step
Changed(t_old, t_new, q) ==
    IF q \in DOMAIN t_new
    THEN (IF q \in DOMAIN t_old THEN t_new[q] # t_old[q] ELSE TRUE)
    ELSE FALSE

\* a call for q is added to the log in this step
Added(log_old, log_new, q) ==
    IF q \in DOMAIN log_new
    THEN (IF q \in DOMAIN log_old THEN Len(log_new[q]) > Len(log_old[q]) ELSE TRUE)
    ELSE FALSE

C3_Step(q) ==
    /\ Changed(query, query', q) =>
          /\ q \in DOMAIN embed_calls'
          /\ Last(embed_calls'[q]).text = query'[q].query
          /\ query'[q].data.vec = Vec(query'[q].query)
          /\ q \notin DOMAIN query_context'
    /\ Changed(query_context, query_context', q) =>
          /\ q \in DOMAIN query
          /\ q \in DOMAIN embed_calls
          /\ query_context'[q].query = query[q].query
    /\ Changed(prompt, prompt', q) =>
          /\ q \in DOMAIN query_context
          /\ prompt'[q].prompt = build_prompt(query_context[q].documents_list,
                                              query_context[q].query)
    /\ Added(chat_calls, chat_calls', q) =>
          /\ q \in DOMAIN prompt
          /\ Last(chat_calls'[q]).text = prompt[q].prompt
    /\ Changed(responses, responses', q) =>
          /\ Added(chat_calls, chat_calls', q)
          /\ Last(chat_calls'[q]).returned
          /\ responses'[q].result =
                ChatCompletion(prompt[q].prompt, config.model_locator,
                               config.temperature, config.max_tokens)
    /\ Added(written, written', q) =>
          /\ q \in DOMAIN responses
          /\ Last(written'[q]) = responses[q].result

\* C3: in the contextful_s3 pipeline a query's row enters query with its
\* embedding; its context is retrieved only once that row exists; its prompt
\* is built only from a context already retrieved; the chat model is called
\* only on a prompt already built; a response is written only from a row of
\* responses the chat call has produced.
C3_StageOrder ==
    [][mode = "contextful_s3" => \A q \in QueryIds : C3_Step(q)]_vars

\* a query has passed every stage, with documents retrieved
C3_Witness ==
    /\ mode = "contextful_s3"
    /\ \E q \in DOMAIN written :
          /\ query_context[q].documents_list # << >>
          /\ written[q] = << responses[q].result >>

\* the result of every row of responses, and every result written, is the
\* output of a chat call that returned
NoFabricatedResult ==
    /\ \A q \in DOMAIN responses :
          /\ q \in DOMAIN chat_calls
          /\ \E i \in 1..Len(chat_calls[q]) :
                LET c == chat_calls[q][i]
                IN  /\ c.returned
                    /\ responses[q].result =
                          ChatCompletion(c.text, c.locator, c.temperature,
                                         c.max_tokens)
    /\ \A q \in DOMAIN written :
          /\ q \in DOMAIN chat_calls
          /\ \A k \in 1..Len(written[q]) :
                \E i \in 1..Len(chat_calls[q]) :
                    LET c == chat_calls[q][i]
                    IN  /\ c.returned
                        /\ written[q][k] =
                              ChatCompletion(c.text, c.locator, c.temperature,
                                             c.max_tokens)

C7_Expected(dl, qt) ==
    "Given the following documents : \n "
        \o (CASE Len(dl) = 0 -> ""
              [] Len(dl) = 1 -> dl[1]
              [] Len(dl) = 2 -> dl[1] \o "\n" \o dl[2]
              [] Len(dl) = 3 -> dl[1] \o "\n" \o dl[2] \o "\n" \o dl[3])
        \o " \nanswer this query: " \o qt

\* C7: a row of prompt is set to the fixed opening, the retrieved documents
\* in their order with one newline between neighbours, the fixed middle and
\* the text of the query of the same row.
C7_BuildPrompt ==
    [][\A q \in QueryIds :
          Changed(prompt, prompt', q) =>
              /\ q \in DOMAIN query_context
              /\ q \in DOMAIN query
              /\ prompt'[q].prompt =
                    C7_Expected(query_context[q].documents_list, query[q].query)]_vars

\* one prompt built from three documents, one from none
C7_Witness ==
    /\ \E q \in DOMAIN prompt :
          prompt[q].prompt =
              "Given the following documents : \n kafka\nkafka\ncsv \nanswer this query: how to kafka"
    /\ \E q \in DOMAIN prompt :
          prompt[q].prompt =
              "Given the following documents : \n  \nanswer this query: how to csv"

\* the context and the prompt of q are those of the documents indexed now
UpToDate(q) ==
    /\ q \in DOMAIN query_context
    /\ q \in DOMAIN prompt
    /\ query_context[q] = QueryContextRow(q)
    /\ prompt[q] = PromptRow(q)

\* C9: two queries with the same text get the same result in the contextless
\* pipeline, whatever their users and their order, and the same prompt in
\* the contextful_s3 pipeline when both are evaluated on the documents
\* indexed now.
C9_UserIndependence ==
    \A q1, q2 \in DOMAIN query :
        query[q1].query = query[q2].query =>
            /\ (mode = "contextless" /\ q1 \in DOMAIN responses
                    /\ q2 \in DOMAIN responses)
                  => responses[q1].result = responses[q2].result
            /\ (mode = "contextful_s3" /\ UpToDate(q1) /\ UpToDate(q2))
                  => prompt[q1] = prompt[q2]

\* two answered queries with the same text from different users
C9_Witness ==
    /\ mode = "contextless"
    /\ DOMAIN responses = {QueryId(1), QueryId(2)}
    /\ query[QueryId(1)].query = query[QueryId(2)].query
    /\ query[QueryId(1)].user # query[QueryId(2)].user

\* C10: no request is answered twice, and unless an external call fails
\* there comes a time from which every accepted request has its response
\* (requests and responses are never taken back, so each one is answered).
C10_AnsweredExactlyOnce ==
    /\ [](\A q \in DOMAIN written : Len(written[q]) = 1)
    /\ <>[](crashed \/ DOMAIN query \subseteq DOMAIN written)

\* a request was answered from an empty index, documents arrived and its
\* row of responses was computed again: still one response
C10_Witness ==
    \E q \in DOMAIN written :
        /\ Len(written[q]) = 1
        /\ chat_calls[q][1].text = build_prompt(<< >>, query[q].query)
        /\ Len(chat_calls[q]) = 2
        /\ chat_calls[q][2].returned
        /\ responses[q].result # written[q][1]
        /\ ~crashed

====
